---- MODULE Spec2Model ----
(***************************************************************************)
(* Model of src/shared/cpu-set-util.c: the growable CPU bit set (CPUSet),  *)
(* its textual parser and renderer, the extend/merge policy and the kernel *)
(* mask size prober (cpu_set_malloc).                                      *)
(*                                                                         *)
(* A CPUSet is the record [owned, allocated, bits]: owned says whether     *)
(* ->set is a non-NULL buffer, allocated is ->allocated in bytes and bits  *)
(* is the set of bit positions that are 1 in the buffer.                   *)
(*                                                                         *)
(* C "unsigned" values are 32 bits wide. TLC's integers stop at 2^31-1, so *)
(* an unsigned is the record [hi, lo] of its two 16-bit halves and the     *)
(* arithmetic below is exact modulo 2^32.                                  *)
(*                                                                         *)
(* Allocation is driven by a budget "mem": the number of allocations that  *)
(* still succeed; a negative budget never runs out.                        *)
(***************************************************************************)
EXTENDS Integers, Sequences, FiniteSets, TLC

\* ------------------------------------------------------------------------
\* Program constants
\* ------------------------------------------------------------------------
ENOMEM == 12
EINVAL == 22
ERANGE == 34
EPERM == 1

\* cpu >= 8192 is rejected by cpu_set_add
CPU_MAX == 8192

\* first trial count of cpu_set_malloc
PROBE_BASE == 1024

\* bits per __cpu_mask word (glibc, 64-bit) and bytes per word
NCPUBITS == 64
MASK_BYTES == 8

\* one 16-bit half of an unsigned
HALF == 65536

\* ------------------------------------------------------------------------
\* Bounds of the model
\* ------------------------------------------------------------------------
\* allocation budgets tried: -1 (never fails) and 0..MaxAllocs
MaxAllocs == 4

\* number of directives remembered by the directive history
MaxDirs == 3

\* ------------------------------------------------------------------------
\* Evaluation
\* ------------------------------------------------------------------------
\* F applied to the value of v, with v evaluated once
With(v, F(_)) == CHOOSE out \in {F(x) : x \in {v}} : TRUE

\* ------------------------------------------------------------------------
\* 32-bit unsigned arithmetic
\* ------------------------------------------------------------------------
U32(n) == [hi |-> n \div HALF, lo |-> n % HALF]

UINT_MAX == [hi |-> HALF - 1, lo |-> HALF - 1]

U32Lt(a, b) == a.hi < b.hi \/ (a.hi = b.hi /\ a.lo < b.lo)

U32Gt(a, b) == U32Lt(b, a)

U32Geq(a, b) == ~U32Lt(a, b)

U32Min(a, b) == IF U32Lt(a, b) THEN a ELSE b

\* a + 1 modulo 2^32
U32Inc(a) ==
    IF a.lo < HALF - 1 THEN [hi |-> a.hi, lo |-> a.lo + 1]
    ELSE [hi |-> (a.hi + 1) % HALF, lo |-> 0]

\* a - 1 modulo 2^32
U32Dec(a) ==
    IF a.lo > 0 THEN [hi |-> a.hi, lo |-> a.lo - 1]
    ELSE [hi |-> (a.hi + HALF - 1) % HALF, lo |-> HALF - 1]

\* a + 1024 in place of the doubling
U32AddBase(a) == U32(a.hi * HALF + a.lo + PROBE_BASE)

\* a * 2 modulo 2^32
U32Double(a) ==
    [hi |-> (2 * a.hi + ((2 * a.lo) \div HALF)) % HALF, lo |-> (2 * a.lo) % HALF]

\* the value of an unsigned known to be below 2^31
U32Val(a) == a.hi * HALF + a.lo

\* ------------------------------------------------------------------------
\* CPUSet and the glibc CPU_*_S macros
\* ------------------------------------------------------------------------
\* CPUSet c = {}
EmptySet == [owned |-> FALSE, allocated |-> 0, bits |-> {}]

\* the size in whole bytes instead of whole words
CPU_ALLOC_SIZE_IN_BYTES(count) == (count + 7) \div 8

\* CPU_ALLOC_SIZE(count): bytes of the whole words that hold count bits
CPU_ALLOC_SIZE(count) == ((count + NCPUBITS - 1) \div NCPUBITS) * MASK_BYTES

\* CPU_ISSET_S(cpu, setsize, set): out-of-buffer positions read as 0
CPU_ISSET_S(cpu, cs) == (cpu \div 8) < cs.allocated /\ cpu \in cs.bits

\* CPU_SET_S(cpu, setsize, set): out-of-buffer positions are not written
CPU_SET_S(cpu, cs) ==
    IF (cpu \div 8) < cs.allocated
    THEN [cs EXCEPT !.bits = cs.bits \cup {cpu}]
    ELSE cs

\* the membership of a set: the positions CPU_ISSET_S reports
Members(cs) == {i \in cs.bits : CPU_ISSET_S(i, cs)}

\* one allocation against the budget
AllocOk(mem) == mem # 0

AllocSpend(mem) == IF mem > 0 THEN mem - 1 ELSE mem

\* cpu_set_reset: free the buffer, clear the descriptor
cpu_set_reset(cs) == EmptySet

\* ------------------------------------------------------------------------
\* cpu_set_realloc, cpu_set_add, cpu_set_add_all
\* ------------------------------------------------------------------------
\* the region realloc appended, after memzero: no bit set
memzero(cs, need) == {i \in cs.bits : i < cs.allocated * 8}

\* cpu_set_realloc resizing whenever the size differs, also downwards
cpu_set_realloc_exact(cs, ncpus, mem) ==
    LET need == CPU_ALLOC_SIZE(ncpus) IN
    IF need # cs.allocated
    THEN IF ~AllocOk(mem)
         THEN [r |-> -ENOMEM, set |-> cs, mem |-> mem]
         ELSE [r |-> 0,
               set |-> [owned |-> TRUE, allocated |-> need,
                        bits |-> {i \in cs.bits : i < need * 8}],
               mem |-> AllocSpend(mem)]
    ELSE [r |-> 0, set |-> cs, mem |-> mem]

cpu_set_realloc(cs, ncpus, mem) ==
    LET need == CPU_ALLOC_SIZE(ncpus) IN
    IF need > cs.allocated
    THEN IF ~AllocOk(mem)
         THEN [r |-> -ENOMEM, set |-> cs, mem |-> mem]
         ELSE [r |-> 0,
               set |-> [owned |-> TRUE, allocated |-> need, bits |-> memzero(cs, need)],
               mem |-> AllocSpend(mem)]
    ELSE [r |-> 0, set |-> cs, mem |-> mem]

\* the ceiling test off by one
CpuTooLargeOffByOne(cpu) == U32Gt(cpu, U32(CPU_MAX))

\* the ceiling test of cpu_set_add
CpuTooLarge(cpu) == U32Geq(cpu, U32(CPU_MAX))

\* cpu is an unsigned
cpu_set_add(cs, cpu, mem) ==
    IF CpuTooLarge(cpu)
    THEN [r |-> -ERANGE, set |-> cs, mem |-> mem]
    ELSE With(cpu_set_realloc(cs, U32Val(cpu) + 1, mem), LAMBDA g :
         IF g.r < 0
         THEN g
         ELSE [r |-> 0, set |-> CPU_SET_S(U32Val(cpu), g.set), mem |-> g.mem])

Max(S) == CHOOSE x \in S : \A y \in S : y <= x

Min(S) == CHOOSE x \in S : \A y \in S : x <= y

\* the loop of cpu_set_add_all passing over the position next to the last one
AddAllNextSkipping(b, cpu_p1) ==
    LET below == {i \in b.bits : i < cpu_p1 - 1 /\ CPU_ISSET_S(i, b)} IN
    IF below = {} THEN 0 ELSE Max(below) + 1

\* The loop of cpu_set_add_all runs cpu_p1 from b->allocated * 8 down to 1 and
\* acts only where the bit cpu_p1 - 1 of b is set; AddAllNext is the next value
\* of cpu_p1 at which it acts (0 when there is none).
AddAllNext(b, cpu_p1) ==
    LET below == {i \in b.bits : i < cpu_p1 /\ CPU_ISSET_S(i, b)} IN
    IF below = {} THEN 0 ELSE Max(below) + 1

RECURSIVE AddAllLoop(_, _, _, _)
AddAllLoop(a, b, cpu_p1, mem) ==
    IF cpu_p1 = 0
    THEN [r |-> 0, set |-> a, mem |-> mem]
    ELSE With(cpu_set_add(a, U32(cpu_p1 - 1), mem), LAMBDA s :
         IF s.r < 0
         THEN s
         ELSE AddAllLoop(s.set, b, AddAllNext(b, cpu_p1 - 1), s.mem))

\* cpu_set_add_all walking b upwards, lowest index first
RECURSIVE AddAllUpLoop(_, _, _, _)
AddAllUpLoop(a, b, cpu, mem) ==
    IF cpu < 0
    THEN [r |-> 0, set |-> a, mem |-> mem]
    ELSE With(cpu_set_add(a, U32(cpu), mem), LAMBDA s :
         LET above == {i \in b.bits : i > cpu /\ CPU_ISSET_S(i, b)} IN
         IF s.r < 0
         THEN s
         ELSE AddAllUpLoop(s.set, b, IF above = {} THEN -1 ELSE Min(above), s.mem))

cpu_set_add_all_upwards(a, b, mem) ==
    LET all == {i \in b.bits : CPU_ISSET_S(i, b)} IN
    AddAllUpLoop(a, b, IF all = {} THEN -1 ELSE Min(all), mem)

cpu_set_add_all(a, b, mem) ==
    AddAllLoop(a, b, AddAllNext(b, b.allocated * 8), mem)

\* ------------------------------------------------------------------------
\* Text: a sequence of one-character strings
\* ------------------------------------------------------------------------
Digits == <<"0", "1", "2", "3", "4", "5", "6", "7", "8", "9">>

IsDigit(ch) == \E d \in 1..10 : Digits[d] = ch

DigitVal(ch) == (CHOOSE d \in 1..10 : Digits[d] = ch) - 1

\* WHITESPACE "," of the call in parse_cpu_set_full (space stands for all
\* white space)
Separators == {" ", ","}

\* the quote characters EXTRACT_QUOTES honours
QuoteChars == {"'"}

\* sprintf("%d", i) for i >= 0
RECURSIVE Decimal(_)
Decimal(i) ==
    IF i < 10 THEN <<Digits[i + 1]>>
    ELSE Decimal(i \div 10) \o <<Digits[(i % 10) + 1]>>

\* DECIMAL_STR_MAX(int)
DECIMAL_STR_MAX_INT == 12

\* ------------------------------------------------------------------------
\* cpu_set_to_string
\* ------------------------------------------------------------------------
\* The loop runs i from 0 to a->allocated * 8 - 1 and acts only where bit i is
\* set; ToStringNext is the next such i at or after "from" (-1 when none).
ToStringNext(a, from) ==
    LET at == {i \in a.bits : i >= from /\ i < a.allocated * 8 /\ CPU_ISSET_S(i, a)} IN
    IF at = {} THEN -1 ELSE Min(at)

\* GREEDY_REALLOC(str, allocated, need): grows to twice the need, 64 at least
GreedyNewAlloc(need) == IF need * 2 < 64 THEN 64 ELSE need * 2

\* the item written without its separating space
ToStringItemUnseparated(len, i) == Decimal(i)

\* sprintf(str + len, len > 0 ? " %d" : "%d", i)
ToStringItem(len, i) == IF len > 0 THEN <<" ">> \o Decimal(i) ELSE Decimal(i)

RECURSIVE ToStringLoop(_, _, _, _, _)
ToStringLoop(a, i, str, allocated, mem) ==
    IF i < 0
    THEN [ok |-> TRUE, str |-> str, taken |-> allocated > 0, mem |-> mem]
    ELSE LET need == Len(str) + 1 + DECIMAL_STR_MAX_INT
             grow == need > allocated
         IN  IF grow /\ ~AllocOk(mem)
             THEN [ok |-> FALSE, str |-> <<>>, taken |-> FALSE, mem |-> mem]
             ELSE With(str \o ToStringItem(Len(str), i), LAMBDA next :
                  ToStringLoop(a, ToStringNext(a, i + 1), next,
                               IF grow THEN GreedyNewAlloc(need) ELSE allocated,
                               IF grow THEN AllocSpend(mem) ELSE mem))

\* ok = FALSE is the NULL return
cpu_set_to_string(a, mem) ==
    With(ToStringLoop(a, ToStringNext(a, 0), <<>>, 0, mem), LAMBDA l :
    IF ~l.ok THEN [ok |-> FALSE, str |-> <<>>]
    ELSE IF l.taken THEN [ok |-> TRUE, str |-> l.str]
    ELSE \* TAKE_PTR(str) is NULL: strdup("")
         IF AllocOk(l.mem) THEN [ok |-> TRUE, str |-> <<>>]
         ELSE [ok |-> FALSE, str |-> <<>>])

\* ------------------------------------------------------------------------
\* The tokenizer and the range helper (extract-word.c, parse-util.c)
\* ------------------------------------------------------------------------
RECURSIVE SkipSeparators(_)
SkipSeparators(p) ==
    IF p # <<>> /\ Head(p) \in Separators THEN SkipSeparators(Tail(p)) ELSE p

\* scan one word; quote is the open quote character or ""
RECURSIVE ScanWord(_, _, _)
ScanWord(p, word, quote) ==
    IF p = <<>>
    THEN IF quote # "" THEN [r |-> -EINVAL, word |-> <<>>, rest |-> p]
         ELSE [r |-> 1, word |-> word, rest |-> p]
    ELSE LET ch == Head(p) IN
         IF quote # ""
         THEN IF ch = quote THEN ScanWord(Tail(p), word, "")
              ELSE ScanWord(Tail(p), word \o <<ch>>, quote)
         ELSE IF ch \in QuoteChars THEN ScanWord(Tail(p), word, ch)
         ELSE IF ch \in Separators
              THEN [r |-> 1, word |-> word, rest |-> SkipSeparators(Tail(p))]
         ELSE ScanWord(Tail(p), word \o <<ch>>, "")

\* extract_first_word(&p, &word, WHITESPACE ",", EXTRACT_QUOTES)
extract_first_word(p, mem) ==
    With(SkipSeparators(p), LAMBDA q :
    IF q = <<>> THEN [r |-> 0, word |-> <<>>, rest |-> q, mem |-> mem]
    ELSE IF ~AllocOk(mem) THEN [r |-> -ENOMEM, word |-> <<>>, rest |-> q, mem |-> mem]
    ELSE With(ScanWord(q, <<>>, ""), LAMBDA s :
         [r |-> s.r, word |-> s.word, rest |-> s.rest, mem |-> AllocSpend(mem)]))

\* v * 10 + d as an unsigned; ok = FALSE when it does not fit in 32 bits
MulAdd10(v, d) ==
    LET lo == v.lo * 10 + d
        hi == v.hi * 10 + (lo \div HALF)
    IN  [ok |-> hi < HALF, v |-> [hi |-> hi % HALF, lo |-> lo % HALF]]

RECURSIVE AtouLoop(_, _)
AtouLoop(s, v) ==
    IF s = <<>> THEN [r |-> 0, v |-> v]
    ELSE IF ~IsDigit(Head(s)) THEN [r |-> -EINVAL, v |-> v]
    ELSE With(MulAdd10(v, DigitVal(Head(s))), LAMBDA m :
         IF ~m.ok THEN [r |-> -ERANGE, v |-> v]
         ELSE AtouLoop(Tail(s), m.v))

\* safe_atou on a decimal string
safe_atou(s) ==
    IF s = <<>> THEN [r |-> -EINVAL, v |-> U32(0)] ELSE AtouLoop(s, U32(0))

\* position of the first "-" of a word, 0 when there is none
DashAt(word) ==
    LET at == {i \in 1..Len(word) : word[i] = "-"} IN
    IF at = {} THEN 0 ELSE Min(at)

\* parse_range(word, &lower, &upper): "N" or "N-M"
parse_range(word, mem) ==
    LET d == DashAt(word)
        first == IF d = 0 THEN word ELSE SubSeq(word, 1, d - 1)
        after == IF d = 0 THEN <<>> ELSE SubSeq(word, d + 1, Len(word))
        none == [r |-> 0, lower |-> U32(0), upper |-> U32(0), mem |-> mem]
    IN  IF word = <<>> THEN [none EXCEPT !.r = -EINVAL]
        ELSE IF ~AllocOk(mem) THEN [none EXCEPT !.r = -ENOMEM]
        ELSE With(safe_atou(first), LAMBDA l :
        IF l.r < 0 THEN [none EXCEPT !.r = l.r, !.mem = AllocSpend(mem)]
        ELSE IF d = 0
             THEN [r |-> 0, lower |-> l.v, upper |-> l.v, mem |-> AllocSpend(mem)]
        ELSE IF after = <<>> THEN [none EXCEPT !.r = -EINVAL, !.mem = AllocSpend(mem)]
        ELSE With(safe_atou(after), LAMBDA u :
        IF u.r < 0 THEN [none EXCEPT !.r = u.r, !.mem = AllocSpend(mem)]
        ELSE [r |-> 0, lower |-> l.v, upper |-> u.v, mem |-> AllocSpend(mem)]))

\* ------------------------------------------------------------------------
\* Diagnostics (log.h): a diagnostic is [level, err, about]
\* ------------------------------------------------------------------------
Abs(x) == IF x < 0 THEN -x ELSE x

\* log_oom(): reports and returns -ENOMEM
log_oom(log) ==
    [r |-> -ENOMEM, log |-> Append(log, [level |-> "LOG_ERR", err |-> -ENOMEM, about |-> "oom"])]

\* log_syntax(unit, level, filename, line, error, ...): reports and returns -abs(error)
log_syntax(log, level, error, about) ==
    [r |-> -Abs(error), log |-> Append(log, [level |-> level, err |-> error, about |-> about])]

\* ------------------------------------------------------------------------
\* parse_cpu_set_full
\* ------------------------------------------------------------------------
\* for (cpu_p1 = ...; cpu_p1 > cpu_lower; cpu_p1--) cpu_set_add(&c, cpu_p1 - 1)
RECURSIVE RangeLoop(_, _, _, _)
RangeLoop(c, cpu_p1, cpu_lower, mem) ==
    IF ~U32Gt(cpu_p1, cpu_lower)
    THEN [r |-> 0, set |-> c, mem |-> mem]
    ELSE With(cpu_set_add(c, U32Dec(cpu_p1), mem), LAMBDA s :
         IF s.r < 0
         THEN s
         ELSE RangeLoop(s.set, U32Dec(cpu_p1), cpu_lower, s.mem))

\* the first value of cpu_p1: MIN(cpu_upper, UINT_MAX-1) + 1
RangeStart(cpu_upper) == U32Inc(U32Min(cpu_upper, U32Dec(UINT_MAX)))

\* the forced allocation done only where the range was also reported
SentinelAllocWhenWarned(c, inverted, warn, mem) ==
    IF inverted /\ warn THEN cpu_set_realloc(c, 1, mem)
    ELSE [r |-> 0, set |-> c, mem |-> mem]

\* if (cpu_lower > cpu_upper) { ...; r = cpu_set_realloc(&c, 1); }
SentinelAlloc(c, inverted, warn, mem) ==
    IF inverted THEN cpu_set_realloc(c, 1, mem)
    ELSE [r |-> 0, set |-> c, mem |-> mem]

\* the return of a failure of the forced allocation of an inverted range
SentinelFail(warn, r, log) == [r |-> r, log |-> log]

\* a failure that also clears the caller's set
ParseFailClearing(d, mem) ==
    [r |-> d.r, written |-> TRUE, set |-> EmptySet, log |-> d.log, mem |-> mem]

\* One result of parse_cpu_set_full: written says whether *cpu_set was assigned,
\* set is the value assigned.
ParseFail(d, mem) ==
    [r |-> d.r, written |-> FALSE, set |-> EmptySet, log |-> d.log, mem |-> mem]

RECURSIVE ParseLoop(_, _, _, _, _)
ParseLoop(p, c, warn, mem, log) ==
    With(extract_first_word(p, mem), LAMBDA e :
    IF e.r = -ENOMEM
    THEN ParseFail(IF warn THEN log_oom(log) ELSE [r |-> -ENOMEM, log |-> log], e.mem)
    ELSE IF e.r < 0
    THEN ParseFail(IF warn THEN log_syntax(log, "LOG_ERR", e.r, "value")
                   ELSE [r |-> e.r, log |-> log], e.mem)
    ELSE IF e.r = 0
    THEN [r |-> 0, written |-> TRUE, set |-> c, log |-> log, mem |-> e.mem]
    ELSE
    With(parse_range(e.word, e.mem), LAMBDA pr :
    IF pr.r < 0
    THEN ParseFail(IF warn THEN log_syntax(log, "LOG_ERR", pr.r, "word")
                   ELSE [r |-> pr.r, log |-> log], pr.mem)
    ELSE
    LET inverted == U32Gt(pr.lower, pr.upper)
        log1 == IF inverted /\ warn
                THEN log_syntax(log, "LOG_WARNING", 0, "range").log
                ELSE log
    IN
    With(SentinelAlloc(c, inverted, warn, pr.mem), LAMBDA g :
    IF g.r < 0
    THEN ParseFail(SentinelFail(warn, g.r, log1), g.mem)
    ELSE
    With(RangeLoop(g.set, RangeStart(pr.upper), pr.lower, g.mem), LAMBDA l :
    IF l.r < 0
    THEN ParseFail(IF warn THEN log_syntax(log1, "LOG_ERR", l.r, "add")
                   ELSE [r |-> l.r, log |-> log1], l.mem)
    ELSE With(log1, LAMBDA log2 : ParseLoop(e.rest, l.set, warn, l.mem, log2))))))

parse_cpu_set_full(rvalue, warn, mem) == ParseLoop(rvalue, EmptySet, warn, mem, <<>>)

\* ------------------------------------------------------------------------
\* parse_cpu_set_extend
\* ------------------------------------------------------------------------
\* the reset test looking at the members instead of the buffer
IsResetWhenNoMember(cpuset) == cpuset.bits = {}

\* the reset test with its negation lost
IsResetAssignmentNegated(cpuset) == cpuset.owned

\* the test that takes an assignment for a reset: !cpuset.set
IsResetAssignment(cpuset) == ~cpuset.owned

\* parse_cpu_set_extend releasing old on its error returns
parse_cpu_set_extend_releasing(rvalue, old, mem) ==
    With(parse_cpu_set_full(rvalue, TRUE, mem), LAMBDA p :
    IF p.r < 0
    THEN [r |-> p.r, old |-> cpu_set_reset(old), log |-> p.log]
    ELSE IF IsResetAssignment(p.set)
    THEN [r |-> 0, old |-> cpu_set_reset(old), log |-> p.log]
    ELSE IF ~old.owned
    THEN [r |-> 0, old |-> p.set, log |-> p.log]
    ELSE With(cpu_set_add_all(old, p.set, p.mem), LAMBDA u :
         [r |-> u.r, old |-> IF u.r < 0 THEN cpu_set_reset(old) ELSE u.set, log |-> p.log]))

parse_cpu_set_extend(rvalue, old, mem) ==
    With(parse_cpu_set_full(rvalue, TRUE, mem), LAMBDA p :
    IF p.r < 0
    THEN [r |-> p.r, old |-> old, log |-> p.log]
    ELSE IF IsResetAssignment(p.set)
    THEN [r |-> 0, old |-> cpu_set_reset(old), log |-> p.log]
    ELSE IF ~old.owned
    THEN [r |-> 0, old |-> p.set, log |-> p.log]
    ELSE With(cpu_set_add_all(old, p.set, p.mem), LAMBDA u :
         [r |-> u.r, old |-> u.set, log |-> p.log]))

\* ------------------------------------------------------------------------
\* Inputs
\* ------------------------------------------------------------------------
Texts ==
    { <<>>,
      <<" ", ",", " ">>,
      <<"3">>,
      <<"2", ",", "4", "-", "6">>,
      <<"4", "-", "6", " ", "5">>,
      <<"9", "-", "3">>,
      <<"9", "-", "3", " ", "7", "-", "1">>,
      <<"9", "-", "3", ",", "2">>,
      <<"8", "1", "9", "1">>,
      <<"3", ",", "8", "1", "9", "2">>,
      <<"0", "-", "4", "2", "9", "4", "9", "6", "7", "2", "9", "5">>,
      <<"4", "2", "9", "4", "9", "6", "7", "2", "9", "5">>,
      <<"2", " ", "4", "2", "9", "4", "9", "6", "7", "2", "9", "5">>,
      <<"4", "2", "9", "4", "9", "6", "7", "2", "9", "6">>,
      <<"x">>,
      <<"'", "4", " ", "5", "'">>,
      <<"'", "3">>,
      <<"'", "2", "'">> }

\* indices handed to cpu_set_add: below, at and above the ceiling
CpuInputs ==
    { U32(0), U32(64), U32(8191), U32(8192), U32(16384),
      [hi |-> 1, lo |-> 0], UINT_MAX }

\* sets handed to cpu_set_add_all as b; the last two were filled in by a caller
\* that writes the public CPUSet fields directly
SrcSets ==
    { EmptySet,
      [owned |-> TRUE, allocated |-> 8, bits |-> {}],
      [owned |-> TRUE, allocated |-> 8, bits |-> {1, 2}],
      [owned |-> TRUE, allocated |-> 16, bits |-> {3, 70}],
      [owned |-> TRUE, allocated |-> 1024, bits |-> {0, 8191}],
      [owned |-> TRUE, allocated |-> 1032, bits |-> {5, 8200}],
      [owned |-> TRUE, allocated |-> 1032, bits |-> {8192}] }

MemInputs == (-1)..MaxAllocs

\* the texts of the directives applied one after the other
DirTexts ==
    { <<>>,
      <<" ", ",", " ">>,
      <<"3">>,
      <<"2", ",", "4", "-", "6">>,
      <<"9", "-", "3">>,
      <<"8", "1", "9", "1">>,
      <<"4", "2", "9", "4", "9", "6", "7", "2", "9", "5">>,
      <<"x">> }

\* the hosts probed: the CPUs the kernel's affinity mask holds; -1 is a host
\* whose mask holds more than 2^32 CPUs, more than any unsigned count
Hosts == {1, 1000, 1025, 5000, 70000, 300000000, -1}

\* ------------------------------------------------------------------------
\* State
\* ------------------------------------------------------------------------
VARIABLES
    old,      \* the caller's CPUSet: the set added to, parsed into and extended
    src,      \* the CPUSet last handed to cpu_set_add_all as b
    last,     \* the last call: its arguments, old before it, and what it returned
    dirs,     \* the texts of the successful parse_cpu_set_extend calls, in order
    pc,       \* cpu_set_malloc: position in the loop
    n,        \* cpu_set_malloc: the trial count, an unsigned
    c,        \* cpu_set_malloc: the trial buffer, <<>> for NULL or <<its size in bytes>>
    ncpus,    \* cpu_set_malloc: *ncpus, <<>> until written, then <<the count>>
    tried,    \* cpu_set_malloc: the trial counts the host answered EINVAL to
    errno,    \* cpu_set_malloc: errno, 0 until a call sets it
    host      \* the host: the CPUs its affinity mask holds (-1: more than 2^32)

setVars == <<old, src, last, dirs>>

probeVars == <<pc, n, c, ncpus, tried, errno, host>>

vars == <<old, src, last, dirs, pc, n, c, ncpus, tried, errno, host>>

NoCall ==
    [op |-> "none", pre |-> EmptySet, cpu |-> U32(0), text |-> <<>>, warn |-> FALSE,
     b |-> EmptySet, mem |-> 0, r |-> 0, log |-> <<>>, str |-> <<>>,
     roundtrip |-> FALSE]

SetInit ==
    /\ old = EmptySet
    /\ src = EmptySet
    /\ last = NoCall
    /\ dirs = <<>>

ProbeIdle ==
    /\ pc = "idle"
    /\ n = U32(0)
    /\ c = <<>>
    /\ ncpus = <<>>
    /\ tried = {}
    /\ errno = 0
    /\ host = 1

\* ------------------------------------------------------------------------
\* Calls on the caller's set
\* ------------------------------------------------------------------------
\* cpu_set_add(&old, cpu)
Add ==
    \E cpu \in CpuInputs, mem \in MemInputs :
        \E s \in {cpu_set_add(old, cpu, mem)} :
        /\ old' = s.set
        /\ last' = [NoCall EXCEPT !.op = "add", !.pre = old, !.cpu = cpu,
                                  !.mem = mem, !.r = s.r]
        /\ UNCHANGED <<src, dirs>>

\* cpu_set_add_all(&old, &b)
AddAll ==
    \E b \in SrcSets, mem \in MemInputs :
        \E s \in {cpu_set_add_all(old, b, mem)} :
        /\ old' = s.set
        /\ src' = b
        /\ last' = [NoCall EXCEPT !.op = "add_all", !.pre = old, !.b = b, !.r = s.r]
        /\ UNCHANGED dirs

\* cpu_set_to_string(&old)
Render ==
    \E mem \in MemInputs :
        \E s \in {cpu_set_to_string(old, mem)} :
        /\ last' = [NoCall EXCEPT !.op = "to_string", !.pre = old,
                                  !.r = IF s.ok THEN 0 ELSE -ENOMEM, !.str = s.str]
        /\ UNCHANGED <<old, src, dirs>>

\* the texts a caller parses: the catalogue and the string just rendered
ParseInputs ==
    Texts \cup (IF last.op = "to_string" /\ last.r = 0 THEN {last.str} ELSE {})

\* parse_cpu_set_full(text, &old, warn, ...)
Parse ==
    \E text \in ParseInputs, warn \in BOOLEAN, mem \in MemInputs :
        \E s \in {parse_cpu_set_full(text, warn, mem)} :
        /\ old' = IF s.written THEN s.set ELSE old
        /\ last' = [NoCall EXCEPT !.op = "parse", !.pre = old, !.text = text,
                                  !.warn = warn, !.r = s.r, !.log = s.log,
                                  !.mem = IF mem < 0 THEN -1 ELSE 0,
                                  !.roundtrip = (last.op = "to_string" /\ last.r = 0
                                                 /\ text = last.str)]
        /\ UNCHANGED <<src, dirs>>

\* parse_cpu_set_extend(text, &old, ...)
ExtendCall(text, mem) ==
    \E s \in {parse_cpu_set_extend(text, old, mem)} :
    /\ old' = s.old
    /\ last' = [NoCall EXCEPT !.op = "extend", !.pre = old, !.text = text,
                              !.warn = TRUE, !.r = s.r, !.log = s.log]
    /\ UNCHANGED src

Extend ==
    \E text \in Texts, mem \in MemInputs :
        /\ ExtendCall(text, mem)
        /\ UNCHANGED dirs

\* cpu_set_reset(&old)
Reset ==
    /\ old' = cpu_set_reset(old)
    /\ last' = [NoCall EXCEPT !.op = "reset", !.pre = old]
    /\ UNCHANGED <<src, dirs>>

Init == SetInit /\ ProbeIdle

\* the calls on the bit set alone
SetNext ==
    \/ Add /\ UNCHANGED probeVars
    \/ AddAll /\ UNCHANGED probeVars
    \/ Reset /\ UNCHANGED probeVars

SetSpec == Init /\ [][SetNext]_vars

\* the calls that read and write text
TextNext ==
    \/ Render /\ UNCHANGED probeVars
    \/ Parse /\ UNCHANGED probeVars
    \/ Extend /\ UNCHANGED probeVars
    \/ Reset /\ UNCHANGED probeVars

TextSpec == Init /\ [][TextNext]_vars

\* ------------------------------------------------------------------------
\* parse_cpu_set_extend applied directive after directive
\* ------------------------------------------------------------------------
Directive ==
    \E text \in DirTexts, mem \in MemInputs :
        /\ Len(dirs) < MaxDirs
        /\ ExtendCall(text, mem)
        /\ dirs' = IF last'.r = 0 THEN Append(dirs, text) ELSE dirs

DirNext == Directive /\ UNCHANGED probeVars

DirSpec == Init /\ [][DirNext]_vars

\* ------------------------------------------------------------------------
\* cpu_set_malloc
\* ------------------------------------------------------------------------
\* CPU_ALLOC_SIZE(n) for an unsigned n, in size_t arithmetic
ProbeBufSize(a) == a.hi * (HALF \div NCPUBITS) * MASK_BYTES + CPU_ALLOC_SIZE(a.lo)

\* the host h accepts a buffer of size bytes: it holds the h CPUs of the mask
\* (for h = -1, more than 2^32 CPUs: more than 2^26 words)
HostAccepts(size, h) ==
    IF h >= 0 THEN size >= (h + 7) \div 8
    ELSE size \div MASK_BYTES > HALF * (HALF \div NCPUBITS)

\* sched_getaffinity(0, size, c) of the host h: the kernel refuses a buffer that
\* cannot hold its mask with EINVAL; any call may fail for another reason
sched_getaffinity(size, h) ==
    {IF HostAccepts(size, h) THEN 0 ELSE -EINVAL} \cup {-EPERM}

\* a retry after every failed query
ProbeRetriesAlways(err) == TRUE

\* if (errno != EINVAL) return NULL; otherwise the loop goes on
ProbeRetries(err) == err = EINVAL

\* the call: unsigned n = 1024
ProbeCall ==
    /\ pc = "idle"
    /\ n' = U32(PROBE_BASE)
    /\ pc' = "alloc"
    /\ tried' = {}
    /\ UNCHANGED <<c, ncpus, errno, host>>

\* c = CPU_ALLOC(n); if (!c) return NULL;
ProbeAlloc ==
    /\ pc = "alloc"
    /\ \E ok \in BOOLEAN :
          IF ok
          THEN c' = <<ProbeBufSize(n)>> /\ pc' = "query" /\ UNCHANGED errno
          ELSE c' = <<>> /\ pc' = "failed" /\ errno' = ENOMEM
    /\ UNCHANGED <<n, ncpus, tried, host>>

\* the query and what follows it in the same iteration
ProbeQuery ==
    /\ pc = "query"
    /\ \E ret \in sched_getaffinity(c[1], host) :
          IF ret >= 0
          THEN /\ ncpus' = <<n>>
               /\ pc' = "returned"
               /\ UNCHANGED <<c, n, tried, errno>>
          ELSE /\ errno' = -ret
               /\ c' = <<>>
               /\ IF ~ProbeRetries(-ret)
                  THEN pc' = "failed" /\ UNCHANGED <<n, tried>>
                  ELSE pc' = "alloc" /\ n' = U32Double(n) /\ tried' = tried \cup {n}
               /\ UNCHANGED ncpus
    /\ UNCHANGED host

ProbeInit ==
    /\ SetInit
    /\ pc = "idle"
    /\ n = U32(0)
    /\ c = <<>>
    /\ ncpus = <<>>
    /\ tried = {}
    /\ errno = 0
    /\ host \in Hosts

ProbeNext ==
    \/ ProbeCall /\ UNCHANGED setVars
    \/ ProbeAlloc /\ UNCHANGED setVars
    \/ ProbeQuery /\ UNCHANGED setVars

ProbeSpec == ProbeInit /\ [][ProbeNext]_vars

\* the call on a system where every allocation succeeds and the query fails
\* only with EINVAL; the loop keeps running until the function returns
SteadyProbeNext ==
    \/ ProbeCall /\ UNCHANGED setVars
    \/ ProbeAlloc /\ pc' = "query" /\ UNCHANGED setVars
    \/ ProbeQuery /\ pc' # "failed" /\ UNCHANGED setVars

SteadyProbeSpec == ProbeInit /\ [][SteadyProbeNext]_vars /\ WF_vars(SteadyProbeNext)

\* ------------------------------------------------------------------------
\* All operations
\* ------------------------------------------------------------------------
Next ==
    \/ SetNext
    \/ TextNext
    \/ DirNext
    \/ ProbeNext

Spec == Init /\ [][Next]_vars

\* ------------------------------------------------------------------------
\* Properties of the bit set calls (SetSpec)
\* ------------------------------------------------------------------------
\* C1: cpu_set_add_all is all-or-nothing: whenever it returns an error (an
\* index of b at or above 8192, or a failed allocation), the destination has
\* the allocated size, the buffer and the bits it had before the call.
C1_AddAllAllOrNothing ==
    (last.op = "add_all" /\ last.r < 0) => old = last.pre

\* a failing union of a source that holds both an addable index and one above
\* the ceiling, into a destination that already has bits
C1_Witness ==
    /\ last.op = "add_all"
    /\ last.r = -ERANGE
    /\ \E i \in Members(src) : i < CPU_MAX
    /\ \E i \in Members(src) : i >= CPU_MAX
    /\ Members(last.pre) # {}

\* C7: after a successful cpu_set_add_all(a, b), an index is a member of a
\* exactly when it was a member of a before the call or is a member of b, and
\* b is the set that was passed in.
C7_AddAllIsUnion ==
    (last.op = "add_all" /\ last.r = 0) =>
        /\ \A i \in old.bits \cup last.pre.bits \cup last.b.bits :
               CPU_ISSET_S(i, old) <=> (CPU_ISSET_S(i, last.pre) \/ CPU_ISSET_S(i, last.b))
        /\ Members(old) = Members(last.pre) \cup Members(last.b)
        /\ src = last.b

\* a successful union in which both sides contribute an index of their own
C7_Witness ==
    /\ last.op = "add_all"
    /\ last.r = 0
    /\ Members(last.pre) \ Members(last.b) # {}
    /\ Members(last.b) \ Members(last.pre) # {}
    /\ last.b.allocated > last.pre.allocated

\* C8: cpu_set_add succeeds for every index below 8192 unless the allocation
\* fails, and then the index is a member and nothing else changed; for every
\* index at or above 8192 it returns -ERANGE and leaves the set as it was.
C8_AddCeiling ==
    last.op = "add" =>
        IF U32Lt(last.cpu, U32(CPU_MAX))
        THEN /\ last.r \in {0, -ENOMEM}
             /\ AllocOk(last.mem) => last.r = 0
             /\ last.r = 0 =>
                   /\ CPU_ISSET_S(U32Val(last.cpu), old)
                   /\ Members(old) = Members(last.pre) \cup {U32Val(last.cpu)}
                   /\ old.allocated >= last.pre.allocated
             /\ last.r < 0 => old = last.pre
        ELSE /\ last.r = -ERANGE
             /\ old = last.pre

\* index 8192 is refused on a set that already holds index 8191
C8_Witness ==
    /\ last.op = "add"
    /\ last.cpu = U32(CPU_MAX)
    /\ last.r = -ERANGE
    /\ (CPU_MAX - 1) \in Members(old)

\* ------------------------------------------------------------------------
\* Reading a text the way the specification describes it
\* ------------------------------------------------------------------------
\* a text has a token when some character of it is not a delimiter
HasToken(text) == \E k \in 1..Len(text) : text[k] \notin Separators

\* the words of a text, when the tokenizer accepts all of it
RECURSIVE Words(_)
Words(text) ==
    With(extract_first_word(text, -1), LAMBDA e :
    IF e.r <= 0 THEN <<>> ELSE <<e.word>> \o Words(e.rest))

\* the interval of each word
Ranges(text) ==
    With(Words(text), LAMBDA ws : [k \in 1..Len(ws) |-> parse_range(ws[k], -1)])

IsInverted(rg) == U32Gt(rg.lower, rg.upper)

\* membership of an unsigned index; an index of 2^31 or more lies outside every buffer
IsMemberU32(u, cs) == u.hi < HALF \div 2 /\ CPU_ISSET_S(U32Val(u), cs)

\* every index of the closed interval [lower, upper] is a member of cs
RangeCovered(rg, cs) ==
    /\ IsMemberU32(rg.lower, cs)
    /\ IsMemberU32(rg.upper, cs)
    /\ rg.upper.hi = 0 => \A i \in U32Val(rg.lower)..U32Val(rg.upper) : CPU_ISSET_S(i, cs)

\* index i lies in the closed interval of rg
InRange(i, rg) == U32Geq(U32(i), rg.lower) /\ U32Geq(rg.upper, U32(i))

\* cs has exactly the indices of the non-inverted intervals of the texts of ts
IsUnionOfTexts(cs, ts) ==
    /\ \A t \in ts : \A k \in DOMAIN Ranges(t) :
           ~IsInverted(Ranges(t)[k]) => RangeCovered(Ranges(t)[k], cs)
    /\ \A i \in Members(cs) : \E t \in ts : \E k \in DOMAIN Ranges(t) : InRange(i, Ranges(t)[k])

\* a rendered string read back: the words between single spaces, as numbers;
\* <<-1>> when it is not a list of decimal numbers separated by single spaces
RECURSIVE DecimalValue(_, _)
DecimalValue(w, acc) ==
    IF w = <<>> THEN acc ELSE DecimalValue(Tail(w), acc * 10 + DigitVal(Head(w)))

RECURSIVE SplitSpaces(_, _)
SplitSpaces(str, word) ==
    IF str = <<>> THEN <<word>>
    ELSE IF Head(str) = " " THEN <<word>> \o SplitSpaces(Tail(str), <<>>)
    ELSE SplitSpaces(Tail(str), word \o <<Head(str)>>)

IsDecimalWord(w) ==
    /\ w # <<>>
    /\ \A k \in 1..Len(w) : IsDigit(w[k])
    /\ Len(w) > 1 => w[1] # "0"

ListedIndices(str) ==
    IF str = <<>> THEN <<>>
    ELSE LET ws == SplitSpaces(str, <<>>) IN
         IF \A k \in 1..Len(ws) : IsDecimalWord(ws[k])
         THEN [k \in 1..Len(ws) |-> DecimalValue(ws[k], 0)]
         ELSE <<-1>>

\* ------------------------------------------------------------------------
\* Properties of the text calls (TextSpec)
\* ------------------------------------------------------------------------
\* C3: parse_cpu_set_extend with a text that has no token (empty or only
\* delimiters) returns 0 and leaves old with no buffer and allocated = 0,
\* whatever old was before.
C3_ExtendReset ==
    (last.op = "extend" /\ ~HasToken(last.text)) =>
        /\ last.r = 0
        /\ ~old.owned
        /\ old.allocated = 0
        /\ Members(old) = {}

\* a delimiters-only text applied to a set that had members
C3_Witness ==
    /\ last.op = "extend"
    /\ last.text # <<>>
    /\ ~HasToken(last.text)
    /\ Members(last.pre) # {}
    /\ old = EmptySet

\* C4: in both modes a successful parse of a text whose only tokens are
\* inverted ranges yields a set that owns a buffer and has no member, a
\* successful parse of a text with no token yields a set with no buffer, and
\* both render as the empty string.
C4_InvertedOwnsStorage ==
    (last.op = "parse" /\ last.r = 0) =>
        /\ (HasToken(last.text) /\ \A k \in DOMAIN Ranges(last.text) : IsInverted(Ranges(last.text)[k])) =>
               /\ old.owned
               /\ old.allocated > 0
               /\ Members(old) = {}
               /\ cpu_set_to_string(old, -1) = [ok |-> TRUE, str |-> <<>>]
        /\ ~HasToken(last.text) =>
               /\ ~old.owned
               /\ old.allocated = 0
               /\ Members(old) = {}
               /\ cpu_set_to_string(old, -1) = [ok |-> TRUE, str |-> <<>>]

\* a strict parse of two inverted ranges
C4_Witness ==
    /\ last.op = "parse"
    /\ last.r = 0
    /\ ~last.warn
    /\ Len(Ranges(last.text)) = 2
    /\ \A k \in DOMAIN Ranges(last.text) : IsInverted(Ranges(last.text)[k])
    /\ old.owned

\* C5: a successful parse yields exactly the union of the closed intervals
\* [lower, upper] of the tokens with lower <= upper, in either mode.
C5_ParseIsUnionOfRanges ==
    (last.op = "parse" /\ last.r = 0) => IsUnionOfTexts(old, {last.text})

\* C6: cpu_set_to_string lists exactly the members, in strictly ascending
\* order, separated by single spaces (the empty string for no member), and
\* parsing that string gives a set with the same members.
C6_RoundTrip ==
    /\ (last.op = "to_string" /\ last.r = 0) =>
           LET l == ListedIndices(last.str) IN
           /\ \A k \in 1..Len(l) : l[k] >= 0
           /\ \A k \in 1..(Len(l) - 1) : l[k] < l[k + 1]
           /\ {l[k] : k \in 1..Len(l)} = Members(old)
    /\ (last.op = "parse" /\ last.roundtrip /\ last.r = 0) =>
           Members(old) = Members(last.pre)
    /\ (last.op = "parse" /\ last.roundtrip /\ last.mem < 0) =>
           last.r = 0

\* the string of a set of at least three members, one of them above 64, parsed back
C6_Witness ==
    /\ last.op = "parse"
    /\ last.roundtrip
    /\ last.r = 0
    /\ Cardinality(Members(old)) >= 3
    /\ \E i \in Members(old) : i > 64

\* C10: in lenient mode a parse that fails has reported that failure (an error
\* diagnostic carrying the returned code is the last thing it emitted), and each
\* inverted range of a parse that succeeds was reported with a warning.
C10_LenientFailureDiagnosed ==
    (last.op = "parse" /\ last.warn) =>
        /\ last.r < 0 =>
              /\ last.log # <<>>
              /\ last.log[Len(last.log)].level = "LOG_ERR"
              /\ -Abs(last.log[Len(last.log)].err) = last.r
        /\ last.r = 0 =>
              Cardinality({k \in DOMAIN last.log : last.log[k].level = "LOG_WARNING"})
                  = Cardinality({k \in DOMAIN Ranges(last.text) : IsInverted(Ranges(last.text)[k])})

\* ------------------------------------------------------------------------
\* Properties of the directives (DirSpec)
\* ------------------------------------------------------------------------
\* the directives applied after the most recent one that had no token
EffectiveDirs(ds) ==
    LET resets == {k \in 1..Len(ds) : ~HasToken(ds[k])}
        from == IF resets = {} THEN 0 ELSE Max(resets)
    IN  {ds[k] : k \in (from + 1)..Len(ds)}

\* C2: after any sequence of successful parse_cpu_set_extend calls on a set
\* that started empty, the set has exactly the indices of the directives
\* applied after the most recent directive without a token.
C2_DirectivesAccumulate ==
    IsUnionOfTexts(old, EffectiveDirs(dirs))

\* ------------------------------------------------------------------------
\* Properties of cpu_set_malloc (ProbeSpec)
\* ------------------------------------------------------------------------
\* 1024 * 2^k as an unsigned, for the k that fit in 32 bits
RECURSIVE BaseTimesPow2(_)
BaseTimesPow2(k) == IF k = 0 THEN U32(PROBE_BASE) ELSE U32Double(BaseTimesPow2(k - 1))

PowerOfTwoMultiples == {BaseTimesPow2(k) : k \in 0..21}

\* C9: a buffer returned by cpu_set_malloc is sized to a trial count 1024 * 2^k,
\* that count is what *ncpus reports, the host accepts a buffer of that size,
\* and every smaller 1024 * 2^j was queried and refused as too small.
C9_ProbeReturnsSmallestPowerOfTwo ==
    pc = "returned" =>
        /\ n \in PowerOfTwoMultiples
        /\ c = <<ProbeBufSize(n)>>
        /\ ncpus = <<n>>
        /\ 0 \in sched_getaffinity(ProbeBufSize(n), host)
        /\ \A m \in PowerOfTwoMultiples :
               U32Lt(m, n) => (m \in tried /\ 0 \notin sched_getaffinity(ProbeBufSize(m), host))

\* a buffer returned after at least three refusals
C9_Witness ==
    /\ pc = "returned"
    /\ Cardinality(tried) >= 3
    /\ ncpus = <<n>>

\* ------------------------------------------------------------------------
\* Growth of the bit set (SetSpec)
\* ------------------------------------------------------------------------
\* C11: no cpu_set_add call, successful or failing, makes allocated smaller,
\* and adding an index that is already a member changes neither allocated nor
\* any bit.
C11_GrowthMonotonic ==
    last.op = "add" =>
        /\ old.allocated >= last.pre.allocated
        /\ IsMemberU32(last.cpu, last.pre) => (last.r = 0 /\ old = last.pre)

\* index 0 added again to a set that has grown to hold index 8191
C11_Witness ==
    /\ last.op = "add"
    /\ last.cpu = U32(0)
    /\ 0 \in Members(last.pre)
    /\ (CPU_MAX - 1) \in Members(last.pre)
    /\ last.pre.allocated = CPU_ALLOC_SIZE(CPU_MAX)

\* ------------------------------------------------------------------------
\* Failure and storage of the text calls (TextSpec)
\* ------------------------------------------------------------------------
\* the text has a token and every token of it is an inverted range
OnlyInverted(text) ==
    /\ HasToken(text)
    /\ Ranges(text) # <<>>
    /\ \A k \in DOMAIN Ranges(text) : Ranges(text)[k].r = 0 /\ IsInverted(Ranges(text)[k])

\* C12: when parse_cpu_set_full returns an error, at whatever token, the
\* caller's set is what it was before the call; it is written only by a call
\* that returns 0.
C12_ParseWritesOnlyOnSuccess ==
    (last.op = "parse" /\ last.r < 0) => old = last.pre

\* a parse that fails at its second token, after the first was accumulated,
\* into a set that had members
C12_Witness ==
    /\ last.op = "parse"
    /\ last.r = -ERANGE
    /\ Len(Words(last.text)) = 2
    /\ Ranges(last.text)[1].r = 0
    /\ ~IsInverted(Ranges(last.text)[1])
    /\ Members(last.pre) # {}
    /\ old = last.pre

\* C13: when parse_cpu_set_extend returns an error, from the parse or from
\* the union, old has the buffer, the allocated size and the bits it had.
C13_ExtendFailureLeavesOld ==
    (last.op = "extend" /\ last.r < 0) => old = last.pre

\* the union failed: the text parsed without an error diagnostic and has no
\* inverted range, and the call still returned -ENOMEM on a set with members
C13_Witness ==
    /\ last.op = "extend"
    /\ last.r = -ENOMEM
    /\ last.log = <<>>
    /\ Ranges(last.text) # <<>>
    /\ \A k \in DOMAIN Ranges(last.text) :
           Ranges(last.text)[k].r = 0 /\ ~IsInverted(Ranges(last.text)[k])
    /\ Members(last.pre) # {}
    /\ old = last.pre

\* C14: in every reachable state the set's allocated is a multiple of the
\* word size and the set has a buffer exactly when allocated > 0; the set a
\* parse of inverted ranges alone yields has allocated equal to one word.
C14_AllocatedInWords ==
    /\ old.allocated % MASK_BYTES = 0
    /\ old.owned <=> old.allocated > 0
    /\ (last.op = "parse" /\ last.r = 0 /\ OnlyInverted(last.text)) =>
           (old.owned /\ old.allocated = MASK_BYTES)

\* the set of a successful parse of inverted ranges alone
C14_Witness ==
    /\ last.op = "parse"
    /\ last.r = 0
    /\ OnlyInverted(last.text)
    /\ old.allocated = MASK_BYTES
    /\ last.pre.allocated > MASK_BYTES

\* C16: a successful parse_cpu_set_extend of inverted ranges alone is not a
\* reset: an old that has a buffer keeps its members and its allocated, and an
\* old without a buffer gets a buffer with no bit set.
C16_InvertedExtendKeepsOld ==
    (last.op = "extend" /\ last.r = 0 /\ OnlyInverted(last.text)) =>
        IF last.pre.owned
        THEN /\ old.owned
             /\ Members(old) = Members(last.pre)
             /\ old.allocated = last.pre.allocated
        ELSE /\ old.owned
             /\ old.allocated > 0
             /\ Members(old) = {}

\* inverted ranges applied to a set that had members
C16_Witness ==
    /\ last.op = "extend"
    /\ last.r = 0
    /\ OnlyInverted(last.text)
    /\ Members(last.pre) # {}
    /\ Members(old) = Members(last.pre)

\* ------------------------------------------------------------------------
\* Failure and progress of cpu_set_malloc (ProbeSpec, SteadyProbeSpec)
\* ------------------------------------------------------------------------
\* C15: cpu_set_malloc goes round again only after a query that failed with
\* EINVAL. A failed allocation, or a query that failed with anything else,
\* ends the call in that iteration: nothing is allocated or queried after it,
\* no trial buffer is left, and *ncpus was not written.
C15_ProbeFailsAtOnce ==
    /\ [](pc = "failed" => (c = <<>> /\ ncpus = <<>> /\ errno # 0 /\ errno # EINVAL))
    /\ [][/\ pc = "failed" => UNCHANGED probeVars
          /\ (pc = "alloc" /\ pc' # "query") => (pc' = "failed" /\ errno' = ENOMEM)
          /\ (pc = "query" /\ pc' # "returned" /\ errno' # EINVAL) => pc' = "failed"
          /\ (pc = "query" /\ pc' = "alloc") => errno' = EINVAL]_vars

\* a query that failed with something other than EINVAL, after retries
C15_Witness ==
    /\ pc = "failed"
    /\ errno = EPERM
    /\ Cardinality(tried) >= 2
    /\ c = <<>>

\* C17: every retry uses a larger trial count than the one before, and when
\* every allocation succeeds and the host refuses only buffers below its
\* threshold, cpu_set_malloc ends by returning a buffer.
C17_ProbeTerminates ==
    /\ [][(pc = "query" /\ pc' = "alloc") => U32Gt(n', n)]_vars
    /\ <>(pc = "returned")

====
